---------------------------- MODULE Spec2Model ----------------------------
(***************************************************************************)
(* Model of the Discourse desktop shell (src-tauri/src/main.rs, menu.rs):  *)
(* the native menu built by menu::get(), the system tray registered in     *)
(* main(), and the tray event handler given to on_system_tray_event.       *)
(*                                                                         *)
(* The host (the Tauri runtime) owns the windows.  Which windows exist,    *)
(* which are minimized and which one holds the input focus when the event  *)
(* loop is entered is decided by the host, so Init draws it from every     *)
(* combination over a small set of window labels.  Whether the host's      *)
(* unminimize and set_focus calls succeed is an input of each left click.  *)
(***************************************************************************)
EXTENDS Naturals, Sequences, FiniteSets

(***************************************************************************)
(* Bounds of the model.                                                    *)
(***************************************************************************)
\* Tray events dispatched in one run.
MaxEvents == 3
\* Calls of menu::get() made after the one at startup.
MaxBuilds == 2
\* Windows the host may hold besides "main".
NumOtherWindows == 2

OtherNames == <<"settings", "popup", "viewer", "extra">>

Labels == {"main"} \cup {OtherNames[i] : i \in 1..NumOtherWindows}

\* The focus holder when no window of the application has the focus.
NoWindow == "<none>"

(***************************************************************************)
(* The state: the host's windows, the process, what startup installed and  *)
(* a record of the last tray event handled.                                *)
(***************************************************************************)
VARIABLES
  exists,      \* labels of the windows the host holds
  minimized,   \* the windows that are minimized
  focused,     \* the window holding the input focus, or NoWindow
  proc,        \* "running", "exited" (process::exit) or "panicked" (unwrap)
  exitCode,    \* the codes given to process::exit: {} or {0}
  menu,        \* the menu installed by Builder::menu at startup
  trayMenu,    \* the items of the tray menu registered at startup
  built,       \* the results of the later calls of menu::get()
  last,        \* the last tray event dispatched, with the host's answers
  pre,         \* the host and shell state when that event was dispatched
  calls,       \* the host calls the handler made for that event, in order
  nEvents      \* tray events dispatched so far

vars ==
  <<exists, minimized, focused, proc, exitCode, menu, trayMenu, built,
    last, pre, calls, nEvents>>

(***************************************************************************)
(* menu.rs: the menu tree.  A Menu is the sequence of its entries (the     *)
(* builder appends); an entry is a native item or a submenu.               *)
(***************************************************************************)
MenuNew == << >>

\* MenuItem::About(name) carries the application name; the other native
\* items carry nothing.
MenuItemWith(name, arg) == [name |-> name, arg |-> arg]

MenuItem(name) == MenuItemWith(name, "")

NativeEntry(item) ==
  [type |-> "NativeItem", title |-> "", item |-> item, inner |-> << >>]

Submenu(title, inner) ==
  [type |-> "Submenu", title |-> title, item |-> MenuItem(""), inner |-> inner]

AddNativeItem(m, item) == Append(m, NativeEntry(item))

AddSubmenu(m, sub) == Append(m, sub)

\* Mutant: Hide and HideOthers are added in the other order.
DiscourseSubmenu_HideSwapped ==
  Submenu("Discourse",
    AddNativeItem(AddNativeItem(AddNativeItem(AddNativeItem(
    AddNativeItem(AddNativeItem(AddNativeItem(MenuNew,
      MenuItemWith("About", "Discourse")),
      MenuItem("Separator")),
      MenuItem("HideOthers")),
      MenuItem("Hide")),
      MenuItem("ShowAll")),
      MenuItem("Separator")),
      MenuItem("Quit")))

DiscourseSubmenu ==
  Submenu("Discourse",
    AddNativeItem(AddNativeItem(AddNativeItem(AddNativeItem(
    AddNativeItem(AddNativeItem(AddNativeItem(MenuNew,
      MenuItemWith("About", "Discourse")),
      MenuItem("Separator")),
      MenuItem("Hide")),
      MenuItem("HideOthers")),
      MenuItem("ShowAll")),
      MenuItem("Separator")),
      MenuItem("Quit")))

\* Mutant: the separator between Redo and Cut is left out.
EditSubmenu_NoSeparator ==
  Submenu("Edit",
    AddNativeItem(AddNativeItem(AddNativeItem(AddNativeItem(
    AddNativeItem(MenuNew,
      MenuItem("Undo")),
      MenuItem("Redo")),
      MenuItem("Cut")),
      MenuItem("Copy")),
      MenuItem("Paste")))

EditSubmenu ==
  Submenu("Edit",
    AddNativeItem(AddNativeItem(AddNativeItem(AddNativeItem(
    AddNativeItem(AddNativeItem(MenuNew,
      MenuItem("Undo")),
      MenuItem("Redo")),
      MenuItem("Separator")),
      MenuItem("Cut")),
      MenuItem("Copy")),
      MenuItem("Paste")))

\* pub fn get() -> Menu
Get ==
  AddNativeItem(AddNativeItem(AddNativeItem(
  AddSubmenu(AddSubmenu(MenuNew,
    DiscourseSubmenu),
    EditSubmenu),
    MenuItem("EnterFullScreen")),
    MenuItem("Separator")),
    MenuItem("Quit"))

(***************************************************************************)
(* main.rs: the system tray.                                               *)
(***************************************************************************)
CustomMenuItem(id, title) == [id |-> id, title |-> title]

SystemTrayMenuNew == << >>

AddItem(m, item) == Append(m, item)

\* Mutant: the item is registered under an identifier the handler does not
\* match.
SystemTray_OtherId == AddItem(SystemTrayMenuNew, CustomMenuItem("exit", "Quit"))

\* SystemTray::new().with_menu(SystemTrayMenu::new().add_item(...))
SystemTray == AddItem(SystemTrayMenuNew, CustomMenuItem("quit", "Quit"))

(***************************************************************************)
(* Tray events.  The handler's match has an arm for LeftClick, an arm for  *)
(* MenuItemClick and a catch-all for every other kind.                     *)
(***************************************************************************)
EventIds == {"quit", "Quit", "about", ""}

OtherKinds == {"RightClick", "DoubleClick"}

LeftClickEvent == [kind |-> "LeftClick", id |-> ""]

MenuItemClickEvent(id) == [kind |-> "MenuItemClick", id |-> id]

Events ==
  {LeftClickEvent}
    \cup {MenuItemClickEvent(id) : id \in EventIds}
    \cup {[kind |-> k, id |-> ""] : k \in OtherKinds}

NoEvent ==
  [kind |-> "none", id |-> "", origin |-> "none",
   unminOk |-> TRUE, focusOk |-> TRUE]

Snapshot ==
  [exists |-> exists, minimized |-> minimized, focused |-> focused,
   proc |-> proc, menu |-> menu, trayMenu |-> trayMenu]

(***************************************************************************)
(* The handler, as the outcome it computes from the state it runs in:      *)
(* the windows' state, the process's fate and the host calls made.         *)
(***************************************************************************)
Outcome(min, foc, p, code, cs) ==
  [minimized |-> min, focused |-> foc, proc |-> p, exitCode |-> code,
   calls |-> cs]

\* app.get_window(label): Some(window) or None, as a sequence of length <= 1.
GetWindow(label) == IF label \in exists THEN <<label>> ELSE << >>

\* Mutant: every window is unminimized, not only w.
Unminimize_All(min, w) == {}

\* window.unminimize() that returned Ok.
Unminimize(min, w) == min \ {w}

\* window.set_focus() that returned Ok: w takes the input focus.
SetFocus(foc, w) == w

\* Option::unwrap / Result::unwrap on None / Err: the handler panics where
\* it stands; what it did before stays done.
Panic(min, foc, cs) == Outcome(min, foc, "panicked", {}, cs)

\* std::process::exit(code): never returns.
ProcessExit(code, cs) == Outcome(minimized, focused, "exited", {code}, cs)

\* An arm with an empty body.
Ignore == Outcome(minimized, focused, "running", {}, << >>)

\* Mutant: a missing main window is skipped (if let Some(window) = ...).
LeftClickArm_IfLet(unminOk, focusOk) ==
  LET window == GetWindow("main")
      c1 == <<"get_window">>
      c2 == Append(c1, "unminimize")
      c3 == Append(c2, "set_focus")
  IN  IF window = << >> THEN Outcome(minimized, focused, "running", {}, c1)
      ELSE IF ~unminOk THEN Panic(minimized, focused, c2)
      ELSE IF ~focusOk
        THEN Panic(Unminimize(minimized, window[1]), focused, c3)
      ELSE Outcome(Unminimize(minimized, window[1]),
                   SetFocus(focused, window[1]), "running", {}, c3)

\* Mutant: the results of unminimize and set_focus are dropped
\* (let _ = window.unminimize(); let _ = window.set_focus();).
LeftClickArm_Swallow(unminOk, focusOk) ==
  LET window == GetWindow("main")
      c1 == <<"get_window">>
      c3 == <<"get_window", "unminimize", "set_focus">>
      min == IF unminOk THEN Unminimize(minimized, window[1]) ELSE minimized
      foc == IF focusOk THEN SetFocus(focused, window[1]) ELSE focused
  IN  IF window = << >> THEN Panic(minimized, focused, c1)
      ELSE Outcome(min, foc, "running", {}, c3)

\* Mutant: set_focus is called before unminimize.
LeftClickArm_FocusFirst(unminOk, focusOk) ==
  LET window == GetWindow("main")
      c1 == <<"get_window">>
      c2 == Append(c1, "set_focus")
      c3 == Append(c2, "unminimize")
  IN  IF window = << >> THEN Panic(minimized, focused, c1)
      ELSE IF ~focusOk THEN Panic(minimized, focused, c2)
      ELSE IF ~unminOk
        THEN Panic(minimized, SetFocus(focused, window[1]), c3)
      ELSE Outcome(Unminimize(minimized, window[1]),
                   SetFocus(focused, window[1]), "running", {}, c3)

\* SystemTrayEvent::LeftClick { .. } => { ... }
LeftClickArm(unminOk, focusOk) ==
  LET window == GetWindow("main")
      c1 == <<"get_window">>
      c2 == Append(c1, "unminimize")
      c3 == Append(c2, "set_focus")
  IN  IF window = << >> THEN Panic(minimized, focused, c1)
      ELSE IF ~unminOk THEN Panic(minimized, focused, c2)
      ELSE IF ~focusOk
        THEN Panic(Unminimize(minimized, window[1]), focused, c3)
      ELSE Outcome(Unminimize(minimized, window[1]),
                   SetFocus(focused, window[1]), "running", {}, c3)

\* Mutant: the quit arm leaves through exit(1).
MenuItemClickArm_ExitOne(id) ==
  IF id = "quit" THEN ProcessExit(1, <<"exit">>) ELSE Ignore

\* Mutant: the identifier is matched without regard to case.
MenuItemClickArm_AnyCase(id) ==
  IF id \in {"quit", "Quit"} THEN ProcessExit(0, <<"exit">>) ELSE Ignore

\* SystemTrayEvent::MenuItemClick { id, .. } => match id.as_str() { ... }
MenuItemClickArm(id) ==
  IF id = "quit" THEN ProcessExit(0, <<"exit">>) ELSE Ignore

\* The closure given to on_system_tray_event.
OnSystemTrayEvent(e, unminOk, focusOk) ==
  IF e.kind = "LeftClick" THEN LeftClickArm(unminOk, focusOk)
  ELSE IF e.kind = "MenuItemClick" THEN MenuItemClickArm(e.id)
  ELSE Ignore

(***************************************************************************)
(* The state machine.                                                      *)
(***************************************************************************)
\* The state when Builder::run has entered the event loop: the menu and the
\* tray are installed, the host holds some windows in some state.  A
\* minimized window does not hold the focus.
Init ==
  /\ exists \in SUBSET Labels
  /\ minimized \in SUBSET exists
  /\ focused \in {NoWindow} \cup (exists \ minimized)
  /\ proc = "running"
  /\ exitCode = {}
  /\ built = << >>
  /\ last = NoEvent
  /\ calls = << >>
  /\ nEvents = 0
  /\ menu = Get
  /\ trayMenu = SystemTray
  /\ pre = Snapshot

\* The event loop hands one event to the handler; only a live process
\* handles events.
Deliver(e, origin, unminOk, focusOk) ==
  LET r == OnSystemTrayEvent(e, unminOk, focusOk) IN
  /\ proc = "running"
  /\ nEvents < MaxEvents
  /\ minimized' = r.minimized
  /\ focused' = r.focused
  /\ proc' = r.proc
  /\ exitCode' = r.exitCode
  /\ calls' = r.calls
  /\ last' = [kind |-> e.kind, id |-> e.id, origin |-> origin,
              unminOk |-> unminOk, focusOk |-> focusOk]
  /\ pre' = Snapshot
  /\ nEvents' = nEvents + 1
  /\ UNCHANGED <<exists, menu, trayMenu, built>>

\* Any tray event is dispatched to the handler.  The host's answers matter
\* to a left click only, and set_focus has no answer when unminimize failed
\* (it is not reached), so those inputs are fixed to TRUE.
TrayEvent ==
  \E e \in Events :
    \E unminOk \in BOOLEAN, focusOk \in BOOLEAN :
      /\ (e.kind # "LeftClick" => unminOk /\ focusOk)
      /\ (~unminOk => focusOk)
      /\ Deliver(e, "dispatch", unminOk, focusOk)

\* The user picks an item of the registered tray menu: the host dispatches a
\* MenuItemClick carrying that item's identifier.
TrayMenuSelect ==
  \E i \in DOMAIN trayMenu :
    Deliver(MenuItemClickEvent(trayMenu[i].id), "traymenu", TRUE, TRUE)

\* menu::get() is called again.
CallGet ==
  /\ proc = "running"
  /\ Len(built) < MaxBuilds
  /\ built' = Append(built, Get)
  /\ UNCHANGED <<exists, minimized, focused, proc, exitCode, menu, trayMenu,
                 last, pre, calls, nEvents>>

Next == TrayEvent \/ TrayMenuSelect \/ CallGet

Spec == Init /\ [][Next]_vars

(***************************************************************************)
(* Properties.                                                             *)
(***************************************************************************)
\* A tray event has been handled; last, pre and calls describe it.
Handled == nEvents > 0

\* The event loop can hand a further tray event to the handler.
TrayStep == TrayEvent \/ TrayMenuSelect

\* The handler left the windows as it found them.
WindowsUntouched ==
  /\ exists = pre.exists
  /\ minimized = pre.minimized
  /\ focused = pre.focused

LastIsQuit == last.kind = "MenuItemClick" /\ last.id = "quit"

LastIsLeftClick == last.kind = "LeftClick"

\* The order of the host calls of one left click.
LeftClickOrder == <<"get_window", "unminimize", "set_focus">>

IsPrefix(s, t) == Len(s) <= Len(t) /\ s = SubSeq(t, 1, Len(s))

\* The entries of a menu, as the names of its native items.
ItemNames(m) == [i \in DOMAIN m |-> m[i].item.name]

AllNative(m) == \A i \in DOMAIN m : m[i].type = "NativeItem"

\* Every menu a call of menu::get() returned: the installed one and the
\* later ones.
Returned == {menu} \cup {built[i] : i \in DOMAIN built}

\* C1: a menu-item-click with identifier "quit", dispatched to a running
\* process, ends the process through exit with code 0; the handler does
\* nothing else (exit is its only call, the windows are as before), and no
\* tray event is handled afterwards.
C1_QuitExitsWithZero ==
  (Handled /\ LastIsQuit) =>
    /\ pre.proc = "running"
    /\ proc = "exited"
    /\ exitCode = {0}
    /\ calls = <<"exit">>
    /\ WindowsUntouched
    /\ ~ENABLED TrayStep

C1_Witness ==
  /\ Handled /\ LastIsQuit /\ last.origin = "dispatch"
  /\ proc = "exited"
  /\ nEvents < MaxEvents

\* C2: a tray event that is neither a left click nor a menu-item-click with
\* identifier "quit" changes nothing: the process keeps running, no host call
\* is made, and the windows, the menu and the tray menu are as before.
C2_OtherEventsIgnored ==
  (Handled /\ ~LastIsLeftClick /\ ~LastIsQuit) =>
    /\ proc = "running"
    /\ exitCode = {}
    /\ calls = << >>
    /\ WindowsUntouched
    /\ menu = pre.menu
    /\ trayMenu = pre.trayMenu

C2_Witness ==
  /\ Handled /\ last.kind = "MenuItemClick" /\ last.id = "Quit"
  /\ proc = "running"
  /\ "main" \in minimized

\* C3: a left click while "main" exists and both host calls succeed leaves
\* "main" unminimized and focused whatever its state before, keeps the
\* process running, and changes the minimized state of no other window.
C3_LeftClickShowsMain ==
  (Handled /\ LastIsLeftClick /\ "main" \in pre.exists
     /\ last.unminOk /\ last.focusOk) =>
    /\ "main" \notin minimized
    /\ focused = "main"
    /\ proc = "running"
    /\ exists = pre.exists
    /\ \A w \in Labels \ {"main"} : (w \in minimized) <=> (w \in pre.minimized)

C3_Witness ==
  /\ Handled /\ LastIsLeftClick /\ last.unminOk /\ last.focusOk
  /\ "main" \in pre.minimized
  /\ pre.focused \notin {"main", NoWindow}
  /\ minimized # {}
  /\ focused = "main"

\* C4: a left click when no window "main" exists is fatal: the handler
\* panics on the lookup, made once, touches no window, and no further event
\* is handled; the process has not exited with code 0.
C4_MissingMainIsFatal ==
  (Handled /\ LastIsLeftClick /\ "main" \notin pre.exists) =>
    /\ proc = "panicked"
    /\ exitCode = {}
    /\ calls = <<"get_window">>
    /\ WindowsUntouched
    /\ ~ENABLED TrayStep

C4_Witness ==
  /\ Handled /\ LastIsLeftClick
  /\ "main" \notin exists /\ exists # {}
  /\ proc = "panicked"
  /\ nEvents < MaxEvents

\* C5: on a left click with "main" present, a failure of unminimize or of
\* set_focus is fatal like a missing window: the handler panics, the process
\* is not running and has not exited with code 0, and no further event is
\* handled.
C5_CallFailureIsFatal ==
  (Handled /\ LastIsLeftClick /\ "main" \in pre.exists
     /\ (~last.unminOk \/ ~last.focusOk)) =>
    /\ proc = "panicked"
    /\ exitCode = {}
    /\ ~ENABLED TrayStep

C5_Witness ==
  /\ Handled /\ LastIsLeftClick /\ "main" \in exists
  /\ ~last.unminOk
  /\ proc = "panicked"
  /\ nEvents < MaxEvents

\* C6: the registered tray menu holds exactly one item, with identifier
\* "quit" and label "Quit"; so every menu-item-click the tray's own menu
\* produces carries the identifier of the quit arm and ends the process with
\* code 0.
C6_TrayMenuIsQuit ==
  /\ Len(trayMenu) = 1
  /\ trayMenu[1].id = "quit"
  /\ trayMenu[1].title = "Quit"
  /\ \A i \in DOMAIN trayMenu :
       MenuItemClickArm(trayMenu[i].id).proc = "exited"
  /\ (Handled /\ last.origin = "traymenu") =>
       (LastIsQuit /\ proc = "exited" /\ exitCode = {0})

C6_Witness ==
  /\ Handled /\ last.origin = "traymenu"
  /\ last.id = trayMenu[1].id
  /\ proc = "exited"

\* C7: the first entry of the menu menu::get() returns is a submenu labeled
\* "Discourse" holding exactly 7 native items in this order: About (with the
\* application name "Discourse"), Separator, Hide, HideOthers, ShowAll,
\* Separator, Quit.
C7_DiscourseSubmenu ==
  \A m \in Returned :
    /\ Len(m) >= 1
    /\ m[1].type = "Submenu"
    /\ m[1].title = "Discourse"
    /\ Len(m[1].inner) = 7
    /\ AllNative(m[1].inner)
    /\ ItemNames(m[1].inner) =
         <<"About", "Separator", "Hide", "HideOthers", "ShowAll",
           "Separator", "Quit">>
    /\ m[1].inner[1].item.arg = "Discourse"

C7_Witness ==
  /\ Len(built) >= 1
  /\ built[1][1].title = "Discourse"
  /\ Len(built[1][1].inner) = 7

\* C8: the second entry of the menu menu::get() returns is a submenu labeled
\* "Edit" holding exactly 6 native items in this order: Undo, Redo,
\* Separator, Cut, Copy, Paste.
C8_EditSubmenu ==
  \A m \in Returned :
    /\ Len(m) >= 2
    /\ m[2].type = "Submenu"
    /\ m[2].title = "Edit"
    /\ Len(m[2].inner) = 6
    /\ AllNative(m[2].inner)
    /\ ItemNames(m[2].inner) =
         <<"Undo", "Redo", "Separator", "Cut", "Copy", "Paste">>

C8_Witness ==
  /\ Len(built) >= 1
  /\ built[1][2].title = "Edit"
  /\ Len(built[1][2].inner) = 6

\* The top level of every menu menu::get() returned is the submenu
\* "Discourse", the submenu "Edit", then exactly 3 native items,
\* EnterFullScreen, Separator, Quit.  (The structural part of C9.  Its other
\* part, that two calls of menu::get() return equal trees, compares Get with
\* Get: get() takes no input and reads no state, so the comparison holds by
\* the definition of equality and is not stated as a property.)
TopLevelEntries ==
  \A m \in Returned :
    /\ Len(m) = 5
    /\ m[1].type = "Submenu" /\ m[1].title = "Discourse"
    /\ m[2].type = "Submenu" /\ m[2].title = "Edit"
    /\ AllNative(SubSeq(m, 3, 5))
    /\ ItemNames(SubSeq(m, 3, 5)) = <<"EnterFullScreen", "Separator", "Quit">>

\* C10 as stated: within one left click the calls are made in the order
\* lookup, unminimize, set_focus; set_focus is called only after unminimize
\* succeeded; after a failed unminimize "main" is not focused; after a failed
\* set_focus "main" is unminimized all the same.
C10_AsStated ==
  (Handled /\ LastIsLeftClick) =>
    /\ IsPrefix(calls, LeftClickOrder)
    /\ ("set_focus" \in {calls[i] : i \in DOMAIN calls} =>
          ("main" \in pre.exists /\ last.unminOk))
    /\ ("main" \in pre.exists /\ ~last.unminOk) => focused # "main"
    /\ ("main" \in pre.exists /\ last.unminOk /\ ~last.focusOk) =>
          "main" \notin minimized

\* C10, amended: within one left click the calls are made in the order
\* lookup, unminimize, set_focus; set_focus is called only after unminimize
\* succeeded; after a failed unminimize set_focus is not called and the
\* focus is where it was before the click (so "main" is focused only if it
\* already was); after a failed set_focus "main" is unminimized all the same
\* and the focus is where it was.
C10_OrderedSteps ==
  (Handled /\ LastIsLeftClick) =>
    /\ IsPrefix(calls, LeftClickOrder)
    /\ ("set_focus" \in {calls[i] : i \in DOMAIN calls} =>
          ("main" \in pre.exists /\ last.unminOk))
    /\ ("main" \in pre.exists /\ ~last.unminOk) =>
          /\ calls = <<"get_window", "unminimize">>
          /\ focused = pre.focused
          /\ minimized = pre.minimized
    /\ ("main" \in pre.exists /\ last.unminOk /\ ~last.focusOk) =>
          /\ calls = LeftClickOrder
          /\ "main" \notin minimized
          /\ focused = pre.focused

C10_Witness ==
  /\ Handled /\ LastIsLeftClick /\ "main" \in exists
  /\ last.unminOk /\ ~last.focusOk
  /\ "main" \in pre.minimized
  /\ "main" \notin minimized
  /\ focused # "main"
  /\ proc = "panicked"

=============================================================================
